---- MODULE Spec2Model ----
(***************************************************************************)
(* eatbitz3D: the equirectangular test-frame renderer (generate_frame),    *)
(* its sequence driver (main) and the segmentation endpoint (segment,      *)
(* segment_objects_internal), as state machines.                           *)
(*                                                                         *)
(* generate_frame is pure per pixel, so the renderer is modelled for one   *)
(* pixel (col, row) of one call (frame_num, total_frames, width, height).  *)
(* Its arithmetic is numpy's binary floating point; the model keeps the    *)
(* operations and their order and rounds every result to MantBits          *)
(* significant bits (round to nearest, ties to even) where float64 rounds  *)
(* to 53.  A float is a pair <<m, e>> of value m * 2^e, with m = 0 or      *)
(* 2^(MantBits-1) <= |m| < 2^MantBits.                                     *)
(***************************************************************************)
EXTENDS Integers, Sequences, FiniteSets, TLC

\* ------------------------------------------------------------- bounds
MantBits == 12
MaxFrames == 2
MaxWidth == 3
MaxHeight == 5
WideWidth == 50
MaxBoxes == 2
MaxPromptLen == 2

\* -------------------------------------------------------------- state
\* generate_frame, for one pixel (col, row) of one call
VARIABLES rpc, frame_num, total_frames, width, height, col, row,
          lon_moved, lat, lon_grid, lat_grid, cells, checker, base, raw,
          img_data, size, img, marks

\* main: its position, the loop index, the output directory (absent, or a
\* map from the file names in it to the frames they hold), the environment's
\* encoder, the calls of generate_frame so far, what was printed, what the
\* encoder read, and the exception main is leaving with
VARIABLES dpc, i, output_dir, ffmpeg, calls, printed, encoded, pending

\* segment: its position, the request body's keys, its prompt, the step the
\* environment makes fail, the detector's box count, the calls made, the
\* masks so far, the result under construction, the exception raised, the
\* formatted prompt and the response
VARIABLES spc, data, prompt, fault, n_boxes, internal_calls, predict_calls,
          masks_list, result, raised, text_prompt, response

rvars == <<rpc, frame_num, total_frames, width, height, col, row,
           lon_moved, lat, lon_grid, lat_grid, cells, checker, base, raw,
           img_data, size, img, marks>>

dvars == <<dpc, i, output_dir, ffmpeg, calls, printed, encoded, pending>>

svars == <<spc, data, prompt, fault, n_boxes, internal_calls, predict_calls,
           masks_list, result, raised, text_prompt, response>>

vars == <<rvars, dvars, svars>>

\* The parts of the state a specification of another program leaves alone.
RenderIdle ==
    /\ rpc = "idle" /\ frame_num = 0 /\ total_frames = 1 /\ width = 1
    /\ height = 1 /\ col = 0 /\ row = 0 /\ lon_moved = <<0, 0>>
    /\ lat = <<0, 0>> /\ lon_grid = FALSE /\ lat_grid = FALSE
    /\ cells = <<0, 0>> /\ checker = FALSE /\ base = <<0, 0, 0>>
    /\ raw = {} /\ img_data = <<0, 0, 0>>
    /\ size = <<0, 0>> /\ img = <<0, 0, 0>> /\ marks = {}

DriverIdle ==
    /\ dpc = "idle" /\ i = 0 /\ ffmpeg = "ok"
    /\ output_dir = [exists |-> FALSE, files |-> <<>>]
    /\ calls = <<>> /\ printed = <<>> /\ encoded = <<>> /\ pending = "none"

SegmentIdle ==
    /\ spc = "idle" /\ data = {} /\ prompt = <<>> /\ fault = "none"
    /\ n_boxes = 0 /\ internal_calls = 0 /\ predict_calls = 0
    /\ masks_list = <<>> /\ result = <<>> /\ raised = "none"
    /\ text_prompt = <<>> /\ response = <<>>

\* ------------------------------------------------ binary floating point
RECURSIVE BitLen(_)
BitLen(n) == IF n = 0 THEN 0 ELSE 1 + BitLen(n \div 2)

Abs(n) == IF n < 0 THEN -n ELSE n

Sign(n) == IF n < 0 THEN -1 ELSE 1

\* n * 2^e rounded to MantBits significant bits, ties to even.
Norm(n, e) ==
    IF n = 0 THEN <<0, 0>>
    ELSE LET a == Abs(n)
             L == BitLen(a)
         IN  IF L <= MantBits
             THEN <<n * 2^(MantBits - L), e - (MantBits - L)>>
             ELSE LET k == L - MantBits
                      q == a \div 2^k
                      r == a % 2^k
                      half == 2^(k - 1)
                      up == IF r > half \/ (r = half /\ q % 2 = 1) THEN q + 1 ELSE q
                  IN  IF up = 2^MantBits
                      THEN <<Sign(n) * 2^(MantBits - 1), e + k + 1>>
                      ELSE <<Sign(n) * up, e + k>>

FromInt(n) == Norm(n, 0)

FNeg(a) == <<-a[1], a[2]>>

FAbs(a) == <<Abs(a[1]), a[2]>>

\* a + b, correctly rounded.
FAdd(a, b) ==
    IF a[1] = 0 THEN b
    ELSE IF b[1] = 0 THEN a
    ELSE LET hi == IF a[2] >= b[2] THEN a ELSE b
             lo == IF a[2] >= b[2] THEN b ELSE a
             d == hi[2] - lo[2]
         IN  IF d > MantBits + 3 THEN hi
             ELSE Norm(hi[1] * 2^d + lo[1], lo[2])

FSub(a, b) == FAdd(a, FNeg(b))

FMul(a, b) == Norm(a[1] * b[1], a[2] + b[2])

\* a / b, correctly rounded: MantBits+2 quotient bits and a sticky bit.
FDiv(a, b) ==
    IF a[1] = 0 THEN <<0, 0>>
    ELSE LET s == IF (a[1] < 0) = (b[1] < 0) THEN 1 ELSE -1
             num == Abs(a[1]) * 2^(MantBits + 2)
             q == num \div Abs(b[1])
             r == num % Abs(b[1])
         IN  Norm(s * (2 * q + (IF r = 0 THEN 0 ELSE 1)),
                  a[2] - b[2] - (MantBits + 2) - 1)

FLt(a, b) == FSub(a, b)[1] < 0

RECURSIVE PowMod(_, _)
PowMod(d, m) == IF d = 0 THEN 1 % m ELSE (2 * PowMod(d - 1, m)) % m

\* C's fmod(a, b) for b > 0: exact, with the sign of a.
CFmod(a, b) ==
    IF a[1] = 0 \/ FLt(FAbs(a), b) THEN a
    ELSE LET d == a[2] - b[2]
             r == ((Abs(a[1]) % b[1]) * PowMod(d, b[1])) % b[1]
         IN  Norm(Sign(a[1]) * r, b[2])

\* numpy's (and Python's) a % b for b > 0: fmod, moved into [0, b).
NpMod(a, b) ==
    LET m == CFmod(a, b)
    IN  IF m[1] < 0 THEN FAdd(m, b) ELSE m

\* float -> integer, toward zero (astype(np.uint8) before the wrap, int()).
Trunc(a) ==
    IF a[2] >= 0 THEN a[1] * 2^a[2]
    ELSE IF -a[2] > 30 THEN 0
    ELSE Sign(a[1]) * (Abs(a[1]) \div 2^(-a[2]))

\* floor(a) as an integer.
Floor(a) ==
    LET t == Trunc(a)
    IN  IF a[1] < 0 /\ FromInt(t) # a THEN t - 1 ELSE t

\* numpy's a // b for b > 0 (npy_divmod), as an integer.
NpFloorDiv(a, b) ==
    LET m == CFmod(a, b)
        d0 == FDiv(FSub(a, m), b)
        dv == IF m[1] < 0 THEN FSub(d0, FromInt(1)) ELSE d0
        f == Floor(dv)
    IN  IF dv[1] = 0 THEN 0
        ELSE IF FLt(FDiv(FromInt(1), FromInt(2)), FSub(dv, FromInt(f))) THEN f + 1
        ELSE f

\* astype(np.uint8) of an integer value: its low 8 bits.
U8(n) == n % 256

\* np.pi: pi to 20 binary places, rounded to the model's precision.
NpPi == Norm(3294199, -20)

TwoPi == FMul(FromInt(2), NpPi)

HalfPi == FDiv(NpPi, FromInt(2))

\* np.deg2rad(d) = d * (pi / 180).
Deg2Rad(d) == FMul(FromInt(d), FDiv(NpPi, FromInt(180)))

\* np.linspace(start, stop, num)[k], endpoint included.
Linspace(start, stop, num, k) ==
    IF num > 1 /\ k = num - 1 THEN stop
    ELSE IF num = 1 THEN FAdd(FMul(FromInt(k), FSub(stop, start)), start)
    ELSE FAdd(FMul(FromInt(k), FDiv(FSub(stop, start), FromInt(num - 1))), start)

\* ---------------------------------------------------- generate_frame
White == <<255, 255, 255>>

Yellow == <<255, 255, 0>>

Red == <<255, 0, 0>>

\* lon_offset = (frame_num / total_frames) * 2 * np.pi
LonOffset(f, t) == FMul(FMul(FDiv(FromInt(f), FromInt(t)), FromInt(2)), NpPi)

\* x = np.linspace(-np.pi, np.pi, width), column c
Lon(w, c) == Linspace(FNeg(NpPi), NpPi, w, c)

\* y = np.linspace(np.pi/2, -np.pi/2, height), row r
Lat(h, r) == Linspace(HalfPi, FNeg(HalfPi), h, r)

\* lon_moved = (lon + lon_offset + np.pi) % (2 * np.pi) - np.pi
LonMoved(f, t, w, c) ==
    FSub(NpMod(FAdd(FAdd(Lon(w, c), LonOffset(f, t)), NpPi), TwoPi), NpPi)

\* grid_spacing = np.deg2rad(30)
GridSpacing == Deg2Rad(30)

\* the literal 0.015
GridTol == FDiv(FromInt(15), FromInt(1000))

\* np.abs(x % grid_spacing) < 0.015
OnGrid(x) == FLt(FAbs(NpMod(x, GridSpacing)), GridTol)

\* generate_true_equirectangular's test of one coordinate, with spacing s and
\* tolerance tol: (|x % s| < tol) | (|(x + s/2) % s - s/2| < tol)
OnGridBothSides(x, s, tol) ==
    \/ FLt(FAbs(NpMod(x, s)), tol)
    \/ FLt(FAbs(FSub(NpMod(FAdd(x, FDiv(s, FromInt(2))), s), FDiv(s, FromInt(2)))), tol)

\* x // grid_spacing
Cell(x) == NpFloorDiv(x, GridSpacing)

\* Mutant of Checker: the parity test inverted.
CheckerWhenParitiesDiffer(lc, ac) == lc % 2 # ac % 2

\* checker = ((lon_moved // grid_spacing) % 2 == (lat // grid_spacing) % 2),
\* of the two quotients
Checker(lc, ac) == lc % 2 = ac % 2

\* Mutant of RedValue: generate_true_equirectangular's 255 scale kept with
\* generate_frame's offset of 50.
RedValueScale255(lm) ==
    Trunc(FAdd(FMul(FDiv(FAdd(lm, NpPi), TwoPi), FromInt(255)), FromInt(50)))

\* the value of (lon_moved + pi) / (2 pi) * 150 + 50 handed to astype(np.uint8)
RedValue(lm) ==
    Trunc(FAdd(FMul(FDiv(FAdd(lm, NpPi), TwoPi), FromInt(150)), FromInt(50)))

\* the value of (lat + pi/2) / pi * 150 + 50 handed to astype(np.uint8)
GreenValue(la) ==
    Trunc(FAdd(FMul(FDiv(FAdd(la, HalfPi), NpPi), FromInt(150)), FromInt(50)))

BlueValue == 100

\* the value of (channel * 0.7) handed to astype(np.uint8)
DarkValue(v) == Trunc(FMul(FromInt(v), FDiv(FromInt(7), FromInt(10))))

BaseColour(lm, la) == <<U8(RedValue(lm)), U8(GreenValue(la)), U8(BlueValue)>>

Darkened(c) == <<U8(DarkValue(c[1])), U8(DarkValue(c[2])), U8(DarkValue(c[3]))>>

\* every value written into the uint8 array, before the cast
RawValues(lm, la, chk) ==
    {RedValue(lm), GreenValue(la), BlueValue}
        \cup (IF chk THEN {DarkValue(BaseColour(lm, la)[k]) : k \in 1..3} ELSE {})

\* Mutant of Composite: the grid lines drawn before the checker darkening.
CompositeGridFirst(b, chk, grid) ==
    IF chk THEN Darkened(IF grid THEN White ELSE b)
    ELSE IF grid THEN White
    ELSE b

\* img_data[row, col] after lines 38-43, from its base colour b
Composite(b, chk, grid) ==
    IF grid THEN White
    ELSE IF chk THEN Darkened(b)
    ELSE b

\* np.zeros((height, width, 3)).shape[:2]
ArrayShape(w, h) == <<h, w>>

\* Image.fromarray(img_data).size
ImageSize(shape) == <<shape[2], shape[1]>>

\* np.sin(x) for the 0 <= x <= 1.2 of the frames modelled, by its Taylor
\* polynomial of degree 7 (off by less than the rounding of a result)
NpSin(x) ==
    LET x2 == FMul(x, x)
        x3 == FMul(x, x2)
        x5 == FMul(x3, x2)
        x7 == FMul(x5, x2)
    IN  FSub(FAdd(FSub(x, FDiv(x3, FromInt(6))), FDiv(x5, FromInt(120))),
             FDiv(x7, FromInt(5040)))

\* ball_x = int((frame_num * 10) % width)
BallX(f, w) == (f * 10) % w

\* ball_y = int(height/2 + np.sin(frame_num * 0.2) * 200)
BallY(f, h) ==
    Trunc(FAdd(FDiv(FromInt(h), FromInt(2)),
               FMul(NpSin(FMul(FromInt(f), FDiv(FromInt(2), FromInt(10)))),
                    FromInt(200))))

BallRadius == 30

\* squared distance of pixel (c, r) from the ball's centre (bx, by)
BallDist2(bx, by, c, r) == (c - bx) * (c - bx) + (r - by) * (r - by)

\* what draw.ellipse may put on a pixel at squared distance d2 of the centre:
\* the fill well inside, nothing well outside, and on the rim whatever the
\* rasteriser decides (outline, fill or nothing)
BallInks(d2) ==
    IF d2 <= (BallRadius - 2) * (BallRadius - 2) THEN {"fill"}
    ELSE IF d2 <= (BallRadius + 1) * (BallRadius + 1) THEN {"fill", "outline", "none"}
    ELSE {"none"}

\* the glyph coverage of a pixel: none, partial (anti-aliased), full
Coverage == {0, 128, 255}

\* one channel of a pixel drawn over with ink at coverage m
BlendValue(v, ink, m) == (v * (255 - m) + ink * m + 127) \div 255

Blend(c, ink, m) ==
    <<BlendValue(c[1], ink[1], m), BlendValue(c[2], ink[2], m),
      BlendValue(c[3], ink[3], m)>>

\* the caption is drawn from (50, height - 50), rightwards and downwards
CaptionReach(h, c, r) == c >= 49 /\ r >= h - 51

Widths == (1..MaxWidth) \cup {WideWidth}

RInit ==
    /\ rpc = "start"
    /\ total_frames \in 1..MaxFrames
    /\ frame_num \in 0..MaxFrames
    /\ width \in Widths
    /\ height \in 1..MaxHeight
    /\ col \in 0..(WideWidth - 1)
    /\ col < width
    /\ row \in 0..(MaxHeight - 1)
    /\ row < height
    /\ lon_moved = <<0, 0>>
    /\ lat = <<0, 0>>
    /\ lon_grid = FALSE
    /\ lat_grid = FALSE
    /\ cells = <<0, 0>>
    /\ checker = FALSE
    /\ base = <<0, 0, 0>>
    /\ raw = {}
    /\ img_data = <<0, 0, 0>>
    /\ size = <<0, 0>>
    /\ img = <<0, 0, 0>>
    /\ marks = {}

\* lines 9-46: the coordinate grid, the masks, the colours, the PIL image
Raster ==
    /\ rpc = "start"
    /\ lon_moved' = LonMoved(frame_num, total_frames, width, col)
    /\ lat' = Lat(height, row)
    /\ lon_grid' = OnGrid(lon_moved')
    /\ lat_grid' = OnGrid(lat')
    /\ cells' = <<Cell(lon_moved'), Cell(lat')>>
    /\ checker' = Checker(cells'[1], cells'[2])
    /\ base' = BaseColour(lon_moved', lat')
    /\ raw' = RawValues(lon_moved', lat', checker')
    /\ img_data' = Composite(base', checker', lon_grid' \/ lat_grid')
    /\ size' = ImageSize(ArrayShape(width, height))
    /\ img' = img_data'
    /\ rpc' = "labels"
    /\ UNCHANGED <<frame_num, total_frames, width, height, col, row, marks>>
    /\ UNCHANGED <<dvars, svars>>

\* lines 49-75: the coordinate labels and the pole captions, white text whose
\* glyphs (font found or default) may or may not cover the pixel
DrawLabels ==
    /\ rpc = "labels"
    /\ \E m \in Coverage :
          /\ img' = Blend(img, White, m)
          /\ marks' = IF m > 0 THEN marks \cup {"label"} ELSE marks
    /\ rpc' = "caption"
    /\ UNCHANGED <<frame_num, total_frames, width, height, col, row, lon_moved,
                   lat, lon_grid, lat_grid, cells, checker, base, raw, img_data,
                   size>>
    /\ UNCHANGED <<dvars, svars>>

\* line 78: the frame counter, yellow text from (50, height - 50)
DrawCaption ==
    /\ rpc = "caption"
    /\ \E m \in (IF CaptionReach(height, col, row) THEN Coverage ELSE {0}) :
          /\ img' = Blend(img, Yellow, m)
          /\ marks' = IF m > 0 THEN marks \cup {"caption"} ELSE marks
    /\ rpc' = "ball"
    /\ UNCHANGED <<frame_num, total_frames, width, height, col, row, lon_moved,
                   lat, lon_grid, lat_grid, cells, checker, base, raw, img_data,
                   size>>
    /\ UNCHANGED <<dvars, svars>>

\* lines 81-85: the ball, filled red with a white outline, then return img
DrawBall ==
    /\ rpc = "ball"
    /\ \E by \in {BallY(frame_num, height)} :
       \E ink \in BallInks(BallDist2(BallX(frame_num, width), by, col, row)) :
          /\ img' = CASE ink = "fill" -> Red
                      [] ink = "outline" -> White
                      [] OTHER -> img
          /\ marks' = IF ink = "none" THEN marks ELSE marks \cup {"ball"}
    /\ rpc' = "done"
    /\ UNCHANGED <<frame_num, total_frames, width, height, col, row, lon_moved,
                   lat, lon_grid, lat_grid, cells, checker, base, raw, img_data,
                   size>>
    /\ UNCHANGED <<dvars, svars>>

RNext == Raster \/ DrawLabels \/ DrawCaption \/ DrawBall

RenderInit == RInit /\ DriverIdle /\ SegmentIdle

SpecRender == RenderInit /\ [][RNext]_vars

\* --------------------------------------------- claims on generate_frame
GridMask == lon_grid \/ lat_grid

\* C4 as stated: in the image generate_frame returns, every pixel flagged as on
\* a grid line is exactly (255,255,255).
C4_ReturnedGridPixelWhite ==
    (rpc = "done" /\ GridMask) => img = White

\* C4 amended: every grid-line pixel is exactly white in the raster composed
\* before the overlays, whatever the checker mask and the base colour, and is
\* still white in the returned image unless the caption or the ball drawn
\* afterwards covers it.
C4_GridPixelWhiteUnlessOverdrawn ==
    (rpc # "start" /\ GridMask) =>
        /\ img_data = White
        /\ (rpc = "done" /\ marks \cap {"caption", "ball"} = {}) => img = White

\* C4 witness: a returned grid-line pixel in a darkened checker cell, under a
\* label but under neither caption nor ball, and white.
C4_Witness ==
    /\ rpc = "done"
    /\ GridMask
    /\ checker
    /\ marks = {"label"}
    /\ img = White

\* C5: the image is width x height, and every channel value computed for the
\* raster (base colour, then the 0.7 darkening) is in 0..255 before the cast.
C5_SizeAndChannelRange ==
    rpc # "start" =>
        /\ size = <<width, height>>
        /\ \A v \in raw : v \in 0..255

\* C5 witness: a darkened, non-grid pixel of a non-square image in a frame
\* past the first turn: six channel values were computed.
C5_Witness ==
    /\ rpc = "done"
    /\ checker
    /\ ~GridMask
    /\ width # height
    /\ frame_num > total_frames
    /\ Cardinality(raw) > 3

\* C6 as stated: with frameIndex = totalFrames the rotated longitude of every
\* pixel equals that of frameIndex = 0, and so do the grid-line flag, the
\* checker flag and the base colour.
C6_RotationPeriodic ==
    (rpc # "start" /\ frame_num = total_frames) =>
        /\ lon_moved = LonMoved(0, total_frames, width, col)
        /\ lon_grid = OnGrid(LonMoved(0, total_frames, width, col))
        /\ checker = Checker(Cell(LonMoved(0, total_frames, width, col)), cells[2])
        /\ base = BaseColour(LonMoved(0, total_frames, width, col), lat)

\* C9 as stated: a pixel off the grid lines is darkened exactly when the two
\* cell indices have different parity.
C9_DarkenedWhenParitiesDiffer ==
    (rpc # "start" /\ ~GridMask) =>
        ((img_data = Darkened(base)) <=> (cells[1] % 2 # cells[2] % 2))

\* C9 amended: a pixel off the grid lines is darkened (each channel times 0.7)
\* exactly when the two cell indices have the same parity, and keeps its base
\* colour when they differ.
C9_DarkenedWhenParitiesEqual ==
    (rpc # "start" /\ ~GridMask) =>
        \A dark \in {Darkened(base)} :
            /\ (cells[1] % 2 = cells[2] % 2) => img_data = dark
            /\ (cells[1] % 2 # cells[2] % 2) => img_data = base
            /\ \A k \in 1..3 : dark[k] < base[k]
            /\ \A k \in 1..3 : 10 * dark[k] \in (7 * base[k] - 10)..(7 * base[k])

\* C9 witness: an off-grid pixel whose cell indices are both odd, darkened.
C9_Witness ==
    /\ rpc = "done"
    /\ ~GridMask
    /\ cells[1] % 2 = 1
    /\ cells[2] % 2 = 1
    /\ img_data[3] \in {69, 70}
    /\ img_data # base

\* C10 as stated: a coordinate within the tolerance of a multiple of the grid
\* spacing is flagged on either side of the multiple, as
\* generate_true_equirectangular's test does.
C10_GridLineBothSides ==
    rpc # "start" =>
        /\ lon_grid = OnGridBothSides(lon_moved, GridSpacing, GridTol)
        /\ lat_grid = OnGridBothSides(lat, GridSpacing, GridTol)

\* --------------------------------------------------------------- main
TotalFrames == 150

FrameWidth == 2048

FrameHeight == 1024

ProgressEvery == 30

RECURSIVE Digits(_)
Digits(n) == IF n < 10 THEN <<n>> ELSE Append(Digits(n \div 10), n % 10)

\* f"{n:04d}": the decimal digits, zero-padded on the left to four
Format04d(n) ==
    LET d == Digits(n)
    IN  IF Len(d) >= 4 THEN d
        ELSE [k \in 1..4 |-> IF k <= 4 - Len(d) THEN 0 ELSE d[k - (4 - Len(d))]]

\* Mutant of FrameName: two digits kept of the index.
FrameNameTwoDigits(n) == Format04d(n % 100)

\* f"{output_dir}/frame_{n:04d}.png", named by its digits
FrameName(n) == Format04d(n)

NoFiles == [n \in {} |-> <<"old", 0>>]

\* frames an earlier run may have left in temp_frames
StaleIndices == {0, TotalFrames, TotalFrames + 1}

StaleDirs ==
    {[exists |-> TRUE, files |-> [n \in {FrameName(k) : k \in S} |-> <<"old", 0>>]] :
        S \in SUBSET StaleIndices}

\* the frames ffmpeg reads for -i temp_frames/frame_%04d.png: numbers 0, 1, ...
\* up to the first one with no file
ReadSequence(files) ==
    LET count == CHOOSE n \in 0..Cardinality(DOMAIN files) :
                    /\ \A k \in 0..(n - 1) : FrameName(k) \in DOMAIN files
                    /\ FrameName(n) \notin DOMAIN files
    IN  [k \in 1..count |-> files[FrameName(k - 1)]]

Line(m, n) == [msg |-> m, n |-> n]

DInit ==
    /\ dpc = "start"
    /\ i = 0
    /\ output_dir \in {[exists |-> FALSE, files |-> NoFiles]} \cup StaleDirs
    /\ ffmpeg \in {"ok", "fail", "missing"}
    /\ calls = <<>>
    /\ printed = <<>>
    /\ encoded = <<>>
    /\ pending = "none"

\* Mutant of PrepareDir: a directory that exists is kept as it is.
PrepareDirKeepsFiles ==
    /\ dpc = "start"
    /\ output_dir' = [exists |-> TRUE, files |-> output_dir.files]
    /\ printed' = Append(printed, Line("generating", TotalFrames))
    /\ dpc' = "loop"
    /\ UNCHANGED <<i, ffmpeg, calls, encoded, pending>>
    /\ UNCHANGED <<rvars, svars>>

\* lines 93-97: rmtree if the directory exists, makedirs, the first print
PrepareDir ==
    /\ dpc = "start"
    /\ output_dir' = [exists |-> TRUE, files |-> NoFiles]
    /\ printed' = Append(printed, Line("generating", TotalFrames))
    /\ dpc' = "loop"
    /\ UNCHANGED <<i, ffmpeg, calls, encoded, pending>>
    /\ UNCHANGED <<rvars, svars>>

\* lines 98-102: one turn of the loop: render frame i, save it, report
RenderFrame ==
    /\ dpc = "loop"
    /\ i < TotalFrames
    /\ calls' = Append(calls, <<i, TotalFrames, FrameWidth, FrameHeight>>)
    /\ output_dir' = [output_dir EXCEPT
                         !.files = (FrameName(i) :> <<"new", i>>) @@ @]
    /\ printed' = IF (i + 1) % ProgressEvery = 0
                  THEN Append(printed, Line("frame_done", i + 1))
                  ELSE printed
    /\ i' = i + 1
    /\ UNCHANGED <<dpc, ffmpeg, encoded, pending>>
    /\ UNCHANGED <<rvars, svars>>

\* lines 104-119: run ffmpeg with check=True; a non-zero exit status raises
\* CalledProcessError, which is caught and printed; a missing ffmpeg raises
\* FileNotFoundError, which is not
Encode ==
    /\ dpc = "loop"
    /\ i >= TotalFrames
    /\ \/ /\ ffmpeg = "ok"
          /\ encoded' = ReadSequence(output_dir.files)
          /\ printed' = printed \o <<Line("encoding", 0), Line("success", 0)>>
          /\ pending' = "none"
       \/ /\ ffmpeg = "fail"
          /\ encoded' = ReadSequence(output_dir.files)
          /\ printed' = printed \o <<Line("encoding", 0), Line("error", 0)>>
          /\ pending' = "none"
       \/ /\ ffmpeg = "missing"
          /\ encoded' = <<>>
          /\ printed' = Append(printed, Line("encoding", 0))
          /\ pending' = "FileNotFoundError"
    /\ dpc' = "finally"
    /\ UNCHANGED <<i, output_dir, ffmpeg, calls>>
    /\ UNCHANGED <<rvars, svars>>

\* Mutant of Finally: the commented-out shutil.rmtree(output_dir) restored.
FinallyRemovesFrames ==
    /\ dpc = "finally"
    /\ output_dir' = [exists |-> FALSE, files |-> NoFiles]
    /\ dpc' = IF pending = "none" THEN "returned" ELSE "raised"
    /\ UNCHANGED <<i, ffmpeg, calls, printed, encoded, pending>>
    /\ UNCHANGED <<rvars, svars>>

\* lines 120-123: the cleanup step (its rmtree is commented out), then main
\* returns, or leaves with the exception that was not caught
Finally ==
    /\ dpc = "finally"
    /\ dpc' = IF pending = "none" THEN "returned" ELSE "raised"
    /\ UNCHANGED <<i, output_dir, ffmpeg, calls, printed, encoded, pending>>
    /\ UNCHANGED <<rvars, svars>>

DNext == PrepareDir \/ RenderFrame \/ Encode \/ Finally

DriverInit == DInit /\ RenderIdle /\ SegmentIdle

SpecDriver == DriverInit /\ [][DNext]_vars

\* ------------------------------------------------------ claims on main
Said(m) == \E k \in 1..Len(printed) : printed[k].msg = m

ThisRunsFrames(n) == [k \in 1..n |-> <<"new", k - 1>>]

\* C7: when the encoder exits with a failure status, the failure is caught
\* and logged, the success message is not printed, main reaches its cleanup
\* step and returns normally, and the frame files are still in the directory.
C7_EncoderFailureHandled ==
    (ffmpeg = "fail" /\ dpc \in {"finally", "returned", "raised"}) =>
        /\ pending = "none"
        /\ dpc # "raised"
        /\ Said("error")
        /\ ~Said("success")
        /\ output_dir.exists
        /\ \A k \in 0..(TotalFrames - 1) :
              /\ FrameName(k) \in DOMAIN output_dir.files
              /\ output_dir.files[FrameName(k)] = <<"new", k>>

\* C7 witness: main has returned after a failed encoder run that read frames.
C7_Witness ==
    /\ dpc = "returned"
    /\ ffmpeg = "fail"
    /\ Len(encoded) > 0
    /\ printed[Len(printed)].msg = "error"

\* C8: generate_frame is called once per index 0..total_frames-1 in
\* increasing order, frame k goes to its own file in a directory emptied or
\* created before the first frame, and the encoder starts only after all
\* frames are written and reads exactly this run's frames in index order.
C8_FramesThenEncoder ==
    dpc \in {"loop", "finally", "returned", "raised"} =>
        /\ Len(calls) = i
        /\ \A k \in 1..Len(calls) :
              calls[k] = <<k - 1, TotalFrames, FrameWidth, FrameHeight>>
        /\ DOMAIN output_dir.files = {FrameName(k) : k \in 0..(i - 1)}
        /\ Cardinality(DOMAIN output_dir.files) = i
        /\ \A k \in 0..(i - 1) : output_dir.files[FrameName(k)] = <<"new", k>>
        /\ dpc = "loop" => encoded = <<>>
        /\ dpc # "loop" => i = TotalFrames
        /\ (dpc # "loop" /\ ffmpeg # "missing") =>
              encoded = ThisRunsFrames(TotalFrames)

\* C8 witness: main has returned after the encoder read all the frames of
\* the run.
C8_Witness ==
    /\ dpc = "returned"
    /\ ffmpeg = "ok"
    /\ Len(encoded) = TotalFrames
    /\ Len(calls) = TotalFrames
    /\ Said("frame_done")

\* ------------------------------------ segment, segment_objects_internal
Keys == {"image_base64", "prompt", "threshold", "extra"}

Chars == {"A", "a", "."}

\* a prompt that is not a string (a JSON number, say)
NotAString == <<"#">>

RECURSIVE SeqsUpTo(_)
SeqsUpTo(n) ==
    IF n = 0 THEN {<<>>}
    ELSE SeqsUpTo(n - 1)
            \cup {Append(q, c) : q \in {r \in SeqsUpTo(n - 1) : Len(r) = n - 1},
                                 c \in Chars}

Prompts == SeqsUpTo(MaxPromptLen) \cup {NotAString}

Lower(c) == IF c = "A" THEN "a" ELSE c

\* lines 51-53: a final '.' is added when missing, then the text is lowered
FormatPrompt(p) ==
    LET q == IF Len(p) > 0 /\ p[Len(p)] = "." THEN p ELSE Append(p, ".")
    IN  [k \in 1..Len(q) |-> Lower(q[k])]

MissingImage == "Missing 'image_base64' field"

MissingPrompt == "Missing 'prompt' field"

ErrorBody(m) == [error |-> m]

\* the steps of a request that the environment can make fail
Faults == {"none", "decode", "open", "detect", "sam", "predict", "mask", "viz"}

SInit ==
    /\ spc = "validate"
    /\ data \in SUBSET Keys
    /\ prompt \in Prompts
    /\ ("prompt" \notin data => prompt = <<>>)
    /\ fault \in Faults
    /\ n_boxes \in 0..MaxBoxes
    /\ internal_calls = 0
    /\ predict_calls = 0
    /\ masks_list = <<>>
    /\ result = <<>>
    /\ raised = "none"
    /\ text_prompt = <<>>
    /\ response = <<>>

\* Mutant of Validate: the 'prompt' check dropped.
ValidateImageOnly ==
    /\ spc = "validate"
    /\ IF "image_base64" \notin data
       THEN response' = <<ErrorBody(MissingImage), 400>> /\ spc' = "done"
       ELSE response' = response /\ spc' = "decode"
    /\ UNCHANGED <<data, prompt, fault, n_boxes, internal_calls, predict_calls,
                   masks_list, result, raised, text_prompt>>
    /\ UNCHANGED <<rvars, dvars>>

\* lines 164-169: the two presence checks, image_base64 first
Validate ==
    /\ spc = "validate"
    /\ IF "image_base64" \notin data
       THEN response' = <<ErrorBody(MissingImage), 400>> /\ spc' = "done"
       ELSE IF "prompt" \notin data
       THEN response' = <<ErrorBody(MissingPrompt), 400>> /\ spc' = "done"
       ELSE response' = response /\ spc' = "decode"
    /\ UNCHANGED <<data, prompt, fault, n_boxes, internal_calls, predict_calls,
                   masks_list, result, raised, text_prompt>>
    /\ UNCHANGED <<rvars, dvars>>

\* line 172: base64.b64decode(data["image_base64"])
Decode ==
    /\ spc = "decode"
    /\ IF fault = "decode"
       THEN raised' = "decode" /\ spc' = "except"
       ELSE raised' = raised /\ spc' = "open"
    /\ UNCHANGED <<data, prompt, fault, n_boxes, internal_calls, predict_calls,
                   masks_list, result, text_prompt, response>>
    /\ UNCHANGED <<rvars, dvars>>

\* lines 175-180 and 38-48: data["prompt"] is read (a KeyError without the
\* key), segment_objects_internal is entered and the image is opened
OpenImage ==
    /\ spc = "open"
    /\ IF "prompt" \notin data
       THEN /\ raised' = "KeyError"
            /\ spc' = "except"
            /\ internal_calls' = internal_calls
       ELSE /\ internal_calls' = internal_calls + 1
            /\ IF fault = "open"
               THEN raised' = "open" /\ spc' = "except"
               ELSE raised' = raised /\ spc' = "format"
    /\ UNCHANGED <<data, prompt, fault, n_boxes, predict_calls, masks_list,
                   result, text_prompt, response>>
    /\ UNCHANGED <<rvars, dvars>>

\* lines 50-53: text_prompt.endswith('.') fails on a prompt that is no string
FormatTextPrompt ==
    /\ spc = "format"
    /\ IF prompt = NotAString
       THEN /\ raised' = "AttributeError"
            /\ spc' = "except"
            /\ text_prompt' = text_prompt
       ELSE /\ raised' = raised
            /\ spc' = "detect"
            /\ text_prompt' = FormatPrompt(prompt)
    /\ UNCHANGED <<data, prompt, fault, n_boxes, internal_calls, predict_calls,
                   masks_list, result, response>>
    /\ UNCHANGED <<rvars, dvars>>

\* lines 55-72: the detector, at the request's threshold or 0.3, gives n_boxes
\* boxes with their scores and labels
Detect ==
    /\ spc = "detect"
    /\ IF fault = "detect"
       THEN raised' = "detect" /\ spc' = "except"
       ELSE raised' = raised /\ spc' = "sam"
    /\ UNCHANGED <<data, prompt, fault, n_boxes, internal_calls, predict_calls,
                   masks_list, result, text_prompt, response>>
    /\ UNCHANGED <<rvars, dvars>>

\* lines 74-78: the segmenter is loaded and given the image
LoadSam ==
    /\ spc = "sam"
    /\ IF fault = "sam"
       THEN raised' = "sam" /\ spc' = "except"
       ELSE raised' = raised /\ spc' = "predict"
    /\ UNCHANGED <<data, prompt, fault, n_boxes, internal_calls, predict_calls,
                   masks_list, result, text_prompt, response>>
    /\ UNCHANGED <<rvars, dvars>>

\* lines 79-84: one turn of the loop over the boxes
Predict ==
    /\ spc = "predict"
    /\ Len(masks_list) < n_boxes
    /\ predict_calls' = predict_calls + 1
    /\ \/ /\ fault = "predict"
          /\ raised' = "predict"
          /\ spc' = "except"
          /\ masks_list' = masks_list
       \/ /\ raised' = raised
          /\ spc' = spc
          /\ masks_list' = Append(masks_list, Len(masks_list) + 1)
    /\ UNCHANGED <<data, prompt, fault, n_boxes, internal_calls, result,
                   text_prompt, response>>
    /\ UNCHANGED <<rvars, dvars>>

Detections(n) == [k \in 1..n |-> k]

\* lines 86-93: masks_array and the result's four fields
BuildResult ==
    /\ spc = "predict"
    /\ Len(masks_list) >= n_boxes
    /\ result' = [num_objects |-> Len(masks_list),
                  boxes |-> Detections(n_boxes),
                  scores |-> Detections(n_boxes),
                  labels |-> Detections(n_boxes)]
    /\ spc' = "mask"
    /\ UNCHANGED <<data, prompt, fault, n_boxes, internal_calls, predict_calls,
                   masks_list, raised, text_prompt, response>>
    /\ UNCHANGED <<rvars, dvars>>

\* Mutant of HasMasks: len(masks_array) >= 0.
HasMasksAlways(masks) == Len(masks) >= 0

\* line 95: len(masks_array) > 0
HasMasks(masks) == Len(masks) > 0

\* lines 95-111: the cut-out of the first mask, when there is a mask
MaskImage ==
    /\ spc = "mask"
    /\ IF ~HasMasks(masks_list)
       THEN raised' = raised /\ spc' = "return" /\ result' = result
       ELSE IF fault = "mask"
       THEN raised' = "mask" /\ spc' = "except" /\ result' = result
       ELSE /\ raised' = raised
            /\ spc' = "viz"
            /\ result' = result @@ [masked_image_base64 |-> "png"]
    /\ UNCHANGED <<data, prompt, fault, n_boxes, internal_calls, predict_calls,
                   masks_list, text_prompt, response>>
    /\ UNCHANGED <<rvars, dvars>>

\* lines 113-136: the overlay of every mask (return_visualization is True)
Visualize ==
    /\ spc = "viz"
    /\ IF fault = "viz"
       THEN raised' = "viz" /\ spc' = "except" /\ result' = result
       ELSE /\ raised' = raised
            /\ spc' = "return"
            /\ result' = result @@ [visualization_base64 |-> "png"]
    /\ UNCHANGED <<data, prompt, fault, n_boxes, internal_calls, predict_calls,
                   masks_list, text_prompt, response>>
    /\ UNCHANGED <<rvars, dvars>>

\* lines 138 and 182: the result is returned as the response
ReturnResult ==
    /\ spc = "return"
    /\ response' = <<result, 200>>
    /\ spc' = "done"
    /\ UNCHANGED <<data, prompt, fault, n_boxes, internal_calls, predict_calls,
                   masks_list, result, raised, text_prompt>>
    /\ UNCHANGED <<rvars, dvars>>

\* Mutant of HandleException: what was built of the result is sent along.
HandleExceptionKeepsResult ==
    /\ spc = "except"
    /\ response' = <<result @@ ErrorBody(raised), 500>>
    /\ spc' = "done"
    /\ UNCHANGED <<data, prompt, fault, n_boxes, internal_calls, predict_calls,
                   masks_list, result, raised, text_prompt>>
    /\ UNCHANGED <<rvars, dvars>>

\* lines 184-185: except Exception as e: return {"error": str(e)}, 500
HandleException ==
    /\ spc = "except"
    /\ response' = <<ErrorBody(raised), 500>>
    /\ spc' = "done"
    /\ UNCHANGED <<data, prompt, fault, n_boxes, internal_calls, predict_calls,
                   masks_list, result, raised, text_prompt>>
    /\ UNCHANGED <<rvars, dvars>>

SNext ==
    \/ Validate \/ Decode \/ OpenImage \/ FormatTextPrompt \/ Detect \/ LoadSam
    \/ Predict \/ BuildResult \/ MaskImage \/ Visualize \/ ReturnResult
    \/ HandleException

SegmentInit == SInit /\ RenderIdle /\ DriverIdle

SpecSegment == SegmentInit /\ [][SNext]_vars

\* -------------------------------------- claims on the segment endpoint
\* C1 as stated: every request lacking 'prompt', whatever its other keys, is
\* answered "Missing 'prompt' field" with 400, and segment_objects_internal
\* is never invoked.
C1_MissingPromptAlways ==
    /\ ("prompt" \notin data) => internal_calls = 0
    /\ (spc = "done" /\ "prompt" \notin data) =>
          response = <<ErrorBody(MissingPrompt), 400>>

\* C1 amended: a request that has 'image_base64' and lacks 'prompt' is
\* answered "Missing 'prompt' field" with 400; one that lacks both is answered
\* "Missing 'image_base64' field" with 400; in neither case is
\* segment_objects_internal invoked.
C1_MissingPromptAfterImage ==
    ("prompt" \notin data) =>
        /\ internal_calls = 0
        /\ predict_calls = 0
        /\ spc \in {"validate", "done"}
        /\ spc = "done" =>
              response = <<ErrorBody(IF "image_base64" \in data
                                     THEN MissingPrompt ELSE MissingImage), 400>>

\* C1 witness: a request with an image, a threshold and another key but no
\* prompt has been answered with the prompt message.
C1_Witness ==
    /\ spc = "done"
    /\ data = {"image_base64", "threshold", "extra"}
    /\ response = <<ErrorBody(MissingPrompt), 400>>

\* C2: with zero boxes detected, the result has num_objects 0, empty boxes,
\* scores and labels, neither masked_image_base64 nor visualization_base64,
\* and predict was never run.
C2_ZeroBoxes ==
    (n_boxes = 0 /\ spc \in {"mask", "viz", "return", "done"} /\ raised = "none"
        /\ {"image_base64", "prompt"} \subseteq data) =>
        /\ result.num_objects = 0
        /\ result.boxes = <<>>
        /\ result.scores = <<>>
        /\ result.labels = <<>>
        /\ DOMAIN result = {"num_objects", "boxes", "scores", "labels"}
        /\ predict_calls = 0
        /\ spc = "done" => response = <<result, 200>>

\* C2 witness: a request whose detector found nothing has been answered.
C2_Witness ==
    /\ spc = "done"
    /\ n_boxes = 0
    /\ raised = "none"
    /\ internal_calls = 1
    /\ response[2] = 200
    /\ response[1].num_objects = 0

FullResultKeys(n) ==
    {"num_objects", "boxes", "scores", "labels"}
        \cup (IF n > 0 THEN {"masked_image_base64", "visualization_base64"} ELSE {})

\* C3: for a request with both required fields, an exception raised while
\* decoding the image or inside segment_objects_internal ends in the response
\* {error: message} with 500, and otherwise the complete result is returned:
\* nothing escapes and no partial result is sent.
C3_ExceptionsBecome500 ==
    ({"image_base64", "prompt"} \subseteq data) =>
        /\ spc = "except" => raised # "none"
        /\ spc = "done" =>
              IF raised = "none"
              THEN /\ response = <<result, 200>>
                   /\ DOMAIN result = FullResultKeys(n_boxes)
                   /\ result.num_objects = n_boxes
              ELSE response = <<ErrorBody(raised), 500>>
        /\ (spc # "done" /\ spc # "validate") => response = <<>>

\* C3 witness: predict failed on the second box, after a first mask had been
\* made, and the request was answered with 500.
C3_Witness ==
    /\ spc = "done"
    /\ raised = "predict"
    /\ predict_calls = 2
    /\ Len(masks_list) = 1
    /\ response = <<ErrorBody("predict"), 500>>
====
